---- MODULE Spec2Model ----
(***************************************************************************)
(* Model of tools/framework_assessment.py: the FrameworkAssessment         *)
(* pipeline (module probe, build verifier, coverage estimator, benchmark   *)
(* and scenario registries, score aggregator) run on one instance.         *)
(* Floats are modelled as exact rationals [n, d]; d = 0 stands for the     *)
(* ZeroDivisionError an unguarded division would raise.                    *)
(***************************************************************************)
EXTENDS Integers, Sequences, FiniteSets, TLC

(* ------------------------------ bounds --------------------------------- *)
\* number of probed module directories whose layout varies on its own; all
\* other probed directories share one layout
MaxVaried == 1
\* number of times run_assessment is invoked on the instance
MaxRuns == 2

(* ------------------------ configuration (lines 96-109) ----------------- *)
expected_framework_modules ==
    <<"common", "network", "rpc", "cache", "database", "actor", "ecs",
      "event", "config", "security", "monitor", "concurrent">>

expected_business_modules ==
    <<"gateway", "login", "payment", "chat", "activity", "ranking", "logic",
      "scene">>

expected_support_modules ==
    <<"test-framework", "admin-console", "launcher">>

Range(s) == {s[i] : i \in DOMAIN s}

\* the support directories _check_support_modules hands to _analyze_module
ProbedSupport == <<"launcher", "common">>

\* every (group, name) directory that _analyze_module is called on
ProbedKeys ==
    [i \in 1..Len(expected_framework_modules) |->
        <<"frame", expected_framework_modules[i]>>]
    \o [i \in 1..Len(expected_business_modules) |->
        <<"business", expected_business_modules[i]>>]
    \o [i \in 1..Len(ProbedSupport) |-> <<"support", ProbedSupport[i]>>]

Min(a, b) == IF a < b THEN a ELSE b

Varied == {ProbedKeys[i] : i \in 1..Min(MaxVaried, Len(ProbedKeys))}

(* ------------------------- issue and advice strings -------------------- *)
IssueDirMissing     == "module directory missing"        \* line 210
IssueNoPom          == "missing pom.xml"                 \* line 217
IssueNoSrc          == "missing standard Maven layout"   \* line 222
IssueNoTests        == "missing test code"               \* line 228
IssueBuildFailed    == "build failed"                    \* line 256
IssueNoTestFramework == "test framework module missing"  \* line 193
IssueNoAdminConsole == "admin console missing"           \* line 200

RecModule      == "complete the framework module structure"   \* line 414
RecBuild       == "fix the compilation problems"              \* line 416
RecCoverage    == "raise the test coverage"                   \* line 418
RecBenchmark   == "implement the performance benchmarks"      \* line 420
RecIntegration == "implement the end-to-end integration tests" \* line 422
RecError       == "assessment raised an error"                \* line 138

BenchmarkNames ==
    <<"actor throughput", "actor concurrency", "network p99 latency",
      "rpc latency", "database tps">>

test_scenarios ==
    <<"login flow", "chat flow", "payment flow", "login storm",
      "scene stress", "activity peak", "service failure",
      "network partition", "data consistency">>

(* ------------------------------ rationals ------------------------------ *)
RECURSIVE GCD(_, _)
GCD(a, b) == IF b = 0 THEN a ELSE GCD(b, a % b)

NaN == [n |-> 0, d |-> 0]

Rat(n, d) ==
    IF d = 0 THEN NaN
    ELSE LET g == GCD(n, d) IN [n |-> n \div g, d |-> d \div g]

Defined(a) == a.d # 0

RAdd(a, b) ==
    IF Defined(a) /\ Defined(b) THEN Rat(a.n * b.d + b.n * a.d, a.d * b.d)
    ELSE NaN

RMul(a, b) ==
    IF Defined(a) /\ Defined(b) THEN Rat(a.n * b.n, a.d * b.d) ELSE NaN

RLess(a, b) == Defined(a) /\ Defined(b) /\ a.n * b.d < b.n * a.d

RLeq(a, b) == Defined(a) /\ Defined(b) /\ a.n * b.d <= b.n * a.d

Int2Rat(i) == [n |-> i, d |-> 1]

\* Python's a / b on numbers: ZeroDivisionError when b = 0
Div(a, b) == Rat(a, b)

(* ------------------------------- state --------------------------------- *)
VARIABLES
    fs,                  \* filesystem answers (external input)
    build_outcome,       \* how the mvn invocation ends (external input)
    raiseAt,             \* the phase that raises, or "none" (external input)
    pc,                  \* position inside run_assessment
    run,                 \* invocations of run_assessment so far
    caught,              \* the except branch of run_assessment was taken
    framework_modules,   \* result.framework_modules
    business_modules,    \* result.business_modules
    support_modules,     \* result.support_modules
    performance_metrics, \* result.performance_metrics
    integration_tests,   \* result.integration_tests
    overall_score,       \* result.overall_score
    recommendations,     \* result.recommendations
    first_result         \* the result as returned by the first invocation

vars == <<fs, build_outcome, raiseAt, pc, run, caught, framework_modules,
          business_modules, support_modules, performance_metrics,
          integration_tests, overall_score, recommendations, first_result>>

env == <<fs, build_outcome, raiseAt>>

(* ------------------------- filesystem answers -------------------------- *)
Missing == [exists |-> FALSE, has_pom |-> FALSE, has_src |-> FALSE,
            has_tests |-> FALSE]

Layouts ==
    {Missing} \cup
    [exists : {TRUE}, has_pom : BOOLEAN, has_src : BOOLEAN,
     has_tests : BOOLEAN]

FileSystems ==
    [rest : Layouts, varied : [Varied -> Layouts],
     test_framework_found : BOOLEAN, admin_console_found : BOOLEAN]

Layout(key) == IF key \in Varied THEN fs.varied[key] ELSE fs.rest

BuildOutcomes == {"success", "failure", "timeout", "error"}

RaisePoints == {"none", "framework", "business", "support", "coverage",
                "performance", "integration", "score"}

(* ------------------------------ ModuleStatus --------------------------- *)
ModuleStatus(exists, issues) ==
    [exists |-> exists, has_pom |-> FALSE, compilable |-> FALSE,
     has_tests |-> FALSE, test_coverage |-> 0, issues |-> issues]

\* _analyze_module without the early return of line 211
AnalyzeModuleNoReturn(l) ==
    [exists |-> l.exists,
     has_pom |-> l.has_pom,
     compilable |-> FALSE,
     has_tests |-> l.has_tests,
     test_coverage |-> 0,
     issues |-> (IF l.exists THEN <<>> ELSE <<IssueDirMissing>>)
                \o (IF l.has_pom THEN <<>> ELSE <<IssueNoPom>>)
                \o (IF l.has_src THEN <<>> ELSE <<IssueNoSrc>>)
                \o (IF l.has_tests THEN <<>> ELSE <<IssueNoTests>>)]

\* _analyze_module, on the answers the filesystem gives for the directory
AnalyzeModule(l) ==
    IF ~l.exists
    THEN ModuleStatus(FALSE, <<IssueDirMissing>>)
    ELSE [exists |-> TRUE,
          has_pom |-> l.has_pom,
          compilable |-> FALSE,
          has_tests |-> l.has_tests,
          test_coverage |-> 0,
          issues |-> (IF l.has_pom THEN <<>> ELSE <<IssueNoPom>>)
                     \o (IF l.has_src THEN <<>> ELSE <<IssueNoSrc>>)
                     \o (IF l.has_tests THEN <<>> ELSE <<IssueNoTests>>)]

\* _check_modules: one entry per expected module, overwriting earlier ones
CheckModules(base_dir, expected_modules, modules_dict) ==
    [name \in DOMAIN modules_dict \cup Range(expected_modules) |->
        IF name \in Range(expected_modules)
        THEN AnalyzeModule(Layout(<<base_dir, name>>))
        ELSE modules_dict[name]]

\* _check_support_modules
CheckSupportModulesDict(modules_dict) ==
    [name \in DOMAIN modules_dict
              \cup {"launcher", "common", "test-framework", "admin-console"} |->
        CASE name = "launcher" -> AnalyzeModule(Layout(<<"support", "launcher">>))
          [] name = "common" -> AnalyzeModule(Layout(<<"support", "common">>))
          [] name = "test-framework" ->
                ModuleStatus(fs.test_framework_found,
                             IF fs.test_framework_found THEN <<>>
                             ELSE <<IssueNoTestFramework>>)
          [] name = "admin-console" ->
                ModuleStatus(fs.admin_console_found,
                             IF fs.admin_console_found THEN <<>>
                             ELSE <<IssueNoAdminConsole>>)
          [] OTHER -> modules_dict[name]]


(* ------------------------------ build verifier ------------------------- *)
\* the update of one module without the guard of line 253
UpdateCompilableUnguarded(module_status, compilation_success) ==
    [module_status EXCEPT
        !.compilable = compilation_success,
        !.issues = IF compilation_success THEN @
                   ELSE Append(@, IssueBuildFailed)]

\* lines 253-256: the update of one module after the build returned
UpdateCompilable(module_status, compilation_success) ==
    IF module_status.exists /\ module_status.has_pom
    THEN [module_status EXCEPT
            !.compilable = compilation_success,
            !.issues = IF compilation_success THEN @
                       ELSE Append(@, IssueBuildFailed)]
    ELSE module_status

\* _check_compilation with a timeout or error handled like a failed build
CheckCompilationDictTimeoutFails(modules_dict, outcome) ==
    [name \in DOMAIN modules_dict |->
        IF modules_dict[name].exists /\ modules_dict[name].has_pom
        THEN [modules_dict[name] EXCEPT
                !.compilable = (outcome = "success"),
                !.issues = IF outcome = "success" THEN @
                           ELSE Append(@, IssueBuildFailed)]
        ELSE modules_dict[name]]

\* _check_compilation on one of the three dictionaries: subprocess.run raises
\* (TimeoutExpired, or any other Exception) before the loop is entered
CheckCompilationDict(modules_dict, outcome) ==
    IF outcome \in {"timeout", "error"}
    THEN modules_dict
    ELSE [name \in DOMAIN modules_dict |->
            UpdateCompilable(modules_dict[name], outcome = "success")]

(* ---------------------------- coverage estimator ----------------------- *)
CoverageWhenTested == 60

\* the estimate with a tested module counted as fully covered
EstimateCoverageFull(module_status) ==
    [module_status EXCEPT
        !.test_coverage = IF module_status.has_tests THEN 100 ELSE 0]

EstimateCoverage(module_status) ==
    [module_status EXCEPT
        !.test_coverage = IF module_status.has_tests THEN CoverageWhenTested
                          ELSE 0]

CheckTestCoverageDict(modules_dict) ==
    [name \in DOMAIN modules_dict |-> EstimateCoverage(modules_dict[name])]

(* ----------------------- benchmark / scenario registries --------------- *)
PerformanceMetrics(test_name) == [test_name |-> test_name, passed |-> FALSE]

\* the five appends of _test_actor/_network/_rpc/_database_performance
RunPerformanceTestsList(metrics) ==
    metrics \o [i \in 1..Len(BenchmarkNames) |->
                    PerformanceMetrics(BenchmarkNames[i])]

RunIntegrationTestsDict(tests) ==
    [s \in DOMAIN tests \cup Range(test_scenarios) |->
        IF s \in Range(test_scenarios) THEN FALSE ELSE tests[s]]

(* ------------------------------ score aggregator ----------------------- *)
Working(d) == {k \in DOMAIN d : d[k].exists /\ d[k].has_pom}

Compilable(d) == {k \in Working(d) : d[k].compilable}

Existing(d) == {k \in DOMAIN d : d[k].exists}

RECURSIVE SumCoverage(_, _)
SumCoverage(d, keys) ==
    IF keys = {} THEN 0
    ELSE LET k == CHOOSE x \in keys : TRUE
         IN d[k].test_coverage + SumCoverage(d, keys \ {k})

CalculateModuleScore(f, b, s) ==
    LET total_modules == Cardinality(DOMAIN f) + Cardinality(DOMAIN b)
                         + Cardinality(DOMAIN s)
        working_modules == Cardinality(Working(f)) + Cardinality(Working(b))
                           + Cardinality(Working(s))
    IN IF total_modules > 0 THEN Div(working_modules * 100, total_modules)
       ELSE Int2Rat(0)

\* _calculate_build_score without the guard of line 455
CalculateBuildScoreUnguarded(f, b, s) ==
    Div((Cardinality({k \in DOMAIN f : f[k].exists /\ f[k].has_pom
                                       /\ f[k].compilable})
         + Cardinality({k \in DOMAIN b : b[k].exists /\ b[k].has_pom
                                         /\ b[k].compilable})
         + Cardinality({k \in DOMAIN s : s[k].exists /\ s[k].has_pom
                                         /\ s[k].compilable})) * 100,
        Cardinality({k \in DOMAIN f : f[k].exists /\ f[k].has_pom})
        + Cardinality({k \in DOMAIN b : b[k].exists /\ b[k].has_pom})
        + Cardinality({k \in DOMAIN s : s[k].exists /\ s[k].has_pom}))

CalculateBuildScore(f, b, s) ==
    LET total_modules == Cardinality(Working(f)) + Cardinality(Working(b))
                         + Cardinality(Working(s))
        compilable_modules == Cardinality(Compilable(f))
                              + Cardinality(Compilable(b))
                              + Cardinality(Compilable(s))
    IN IF total_modules > 0 THEN Div(compilable_modules * 100, total_modules)
       ELSE Int2Rat(0)

CalculateTestScore(f, b, s) ==
    LET total_coverage == SumCoverage(f, Existing(f))
                          + SumCoverage(b, Existing(b))
                          + SumCoverage(s, Existing(s))
        module_count == Cardinality(Existing(f)) + Cardinality(Existing(b))
                        + Cardinality(Existing(s))
    IN IF module_count > 0 THEN Div(total_coverage, module_count)
       ELSE Int2Rat(0)

CalculatePerformanceScore(metrics) ==
    IF metrics = <<>> THEN Int2Rat(0)
    ELSE LET passed_tests ==
                Cardinality({i \in DOMAIN metrics : metrics[i].passed})
         IN Div(passed_tests * 100, Len(metrics))

CalculateIntegrationScore(tests) ==
    IF DOMAIN tests = {} THEN Int2Rat(0)
    ELSE LET passed_tests == Cardinality({k \in DOMAIN tests : tests[k]})
         IN Div(passed_tests * 100, Cardinality(DOMAIN tests))

\* lines 391-408: the five category scores, in the order they are computed
CategoryScores(f, b, s, metrics, tests) ==
    <<CalculateModuleScore(f, b, s), CalculateBuildScore(f, b, s),
      CalculateTestScore(f, b, s), CalculatePerformanceScore(metrics),
      CalculateIntegrationScore(tests)>>

\* the weighted sum with the build score weighted 0.3 instead of 0.2
OverallScoreWrongWeight(sc) ==
    RAdd(RAdd(RAdd(RAdd(RMul(sc[1], Rat(3, 10)), RMul(sc[2], Rat(3, 10))),
                   RMul(sc[3], Rat(2, 10))),
              RMul(sc[4], Rat(15, 100))),
         RMul(sc[5], Rat(15, 100)))

\* lines 392-410: sum([m * 0.3, b * 0.2, t * 0.2, p * 0.15, i * 0.15])
OverallScore(sc) ==
    RAdd(RAdd(RAdd(RAdd(RMul(sc[1], Rat(3, 10)), RMul(sc[2], Rat(2, 10))),
                   RMul(sc[3], Rat(2, 10))),
              RMul(sc[4], Rat(15, 100))),
         RMul(sc[5], Rat(15, 100)))

\* the recommendations with the coverage threshold at 60 instead of 70
RecommendCoverageAt60(sc) ==
    (IF RLess(sc[1], Int2Rat(80)) THEN <<RecModule>> ELSE <<>>)
    \o (IF RLess(sc[2], Int2Rat(90)) THEN <<RecBuild>> ELSE <<>>)
    \o (IF RLess(sc[3], Int2Rat(60)) THEN <<RecCoverage>> ELSE <<>>)
    \o (IF RLess(sc[4], Int2Rat(60)) THEN <<RecBenchmark>> ELSE <<>>)
    \o (IF RLess(sc[5], Int2Rat(50)) THEN <<RecIntegration>> ELSE <<>>)

\* lines 413-422
Recommend(sc) ==
    (IF RLess(sc[1], Int2Rat(80)) THEN <<RecModule>> ELSE <<>>)
    \o (IF RLess(sc[2], Int2Rat(90)) THEN <<RecBuild>> ELSE <<>>)
    \o (IF RLess(sc[3], Int2Rat(70)) THEN <<RecCoverage>> ELSE <<>>)
    \o (IF RLess(sc[4], Int2Rat(60)) THEN <<RecBenchmark>> ELSE <<>>)
    \o (IF RLess(sc[5], Int2Rat(50)) THEN <<RecIntegration>> ELSE <<>>)

\* an except branch that records nothing
ExceptHandlerSilent(recs) == recs

\* line 138: the except branch of run_assessment
ExceptHandler(recs) == Append(recs, RecError)


(* ------------------------------ the pipeline --------------------------- *)
EmptyDict == [k \in {} |-> FALSE]

\* the AssessmentResult held by the instance (the timestamp left out)
Result ==
    [framework_modules |-> framework_modules,
     business_modules |-> business_modules,
     support_modules |-> support_modules,
     performance_metrics |-> performance_metrics,
     integration_tests |-> integration_tests,
     overall_score |-> overall_score,
     recommendations |-> recommendations]

modules == <<framework_modules, business_modules, support_modules>>

result == <<framework_modules, business_modules, support_modules,
            performance_metrics, integration_tests, overall_score,
            recommendations>>

\* __init__: an empty result; the external inputs are whatever they are
Init ==
    /\ fs \in FileSystems
    /\ build_outcome \in BuildOutcomes
    /\ raiseAt \in RaisePoints
    /\ pc = "ready"
    /\ run = 0
    /\ caught = FALSE
    /\ framework_modules = EmptyDict
    /\ business_modules = EmptyDict
    /\ support_modules = EmptyDict
    /\ performance_metrics = <<>>
    /\ integration_tests = EmptyDict
    /\ overall_score = Int2Rat(0)
    /\ recommendations = <<>>
    /\ first_result = Result

\* the first call of run_assessment on the instance
RunAssessment ==
    /\ pc = "ready"
    /\ run' = run + 1
    /\ pc' = "framework"
    /\ UNCHANGED <<env, caught, result, first_result>>

\* a further call of run_assessment on the same instance, after the
\* earlier one returned
RunAssessmentAgain ==
    /\ pc = "returned"
    /\ run < MaxRuns
    /\ run' = run + 1
    /\ pc' = "framework"
    /\ caught' = FALSE
    /\ first_result' = IF run = 1 THEN Result ELSE first_result
    /\ UNCHANGED <<env, result>>

\* line 147
CheckFrameworkModules ==
    /\ pc = "framework" /\ raiseAt # "framework"
    /\ framework_modules' =
            CheckModules("frame", expected_framework_modules, framework_modules)
    /\ pc' = "business"
    /\ UNCHANGED <<env, run, caught, business_modules, support_modules,
                   performance_metrics, integration_tests, overall_score,
                   recommendations, first_result>>

\* line 150
CheckBusinessModules ==
    /\ pc = "business" /\ raiseAt # "business"
    /\ business_modules' =
            CheckModules("business", expected_business_modules, business_modules)
    /\ pc' = "support"
    /\ UNCHANGED <<env, run, caught, framework_modules, support_modules,
                   performance_metrics, integration_tests, overall_score,
                   recommendations, first_result>>

\* line 153
CheckSupportModules ==
    /\ pc = "support" /\ raiseAt # "support"
    /\ support_modules' = CheckSupportModulesDict(support_modules)
    /\ pc' = "build"
    /\ UNCHANGED <<env, run, caught, framework_modules, business_modules,
                   performance_metrics, integration_tests, overall_score,
                   recommendations, first_result>>

\* _check_compilation: every exception is caught inside it
CheckCompilation ==
    /\ pc = "build"
    /\ framework_modules' = CheckCompilationDict(framework_modules, build_outcome)
    /\ business_modules' = CheckCompilationDict(business_modules, build_outcome)
    /\ support_modules' = CheckCompilationDict(support_modules, build_outcome)
    /\ pc' = "coverage"
    /\ UNCHANGED <<env, run, caught, performance_metrics, integration_tests,
                   overall_score, recommendations, first_result>>

CheckTestCoverage ==
    /\ pc = "coverage" /\ raiseAt # "coverage"
    /\ framework_modules' = CheckTestCoverageDict(framework_modules)
    /\ business_modules' = CheckTestCoverageDict(business_modules)
    /\ support_modules' = CheckTestCoverageDict(support_modules)
    /\ pc' = "performance"
    /\ UNCHANGED <<env, run, caught, performance_metrics, integration_tests,
                   overall_score, recommendations, first_result>>

RunPerformanceTests ==
    /\ pc = "performance" /\ raiseAt # "performance"
    /\ performance_metrics' = RunPerformanceTestsList(performance_metrics)
    /\ pc' = "integration"
    /\ UNCHANGED <<env, run, caught, modules, integration_tests,
                   overall_score, recommendations, first_result>>

RunIntegrationTests ==
    /\ pc = "integration" /\ raiseAt # "integration"
    /\ integration_tests' = RunIntegrationTestsDict(integration_tests)
    /\ pc' = "score"
    /\ UNCHANGED <<env, run, caught, modules, performance_metrics,
                   overall_score, recommendations, first_result>>

\* _calculate_score_and_recommendations, then the return of line 140; a
\* division by zero in a category score leaves through the except branch
CalculateScoreAndRecommendations ==
    /\ pc = "score" /\ raiseAt # "score"
    /\ LET sc == CategoryScores(framework_modules, business_modules,
                                support_modules, performance_metrics,
                                integration_tests)
       IN IF \A i \in 1..5 : Defined(sc[i])
          THEN /\ overall_score' = OverallScore(sc)
               /\ recommendations' = Recommend(sc)
               /\ caught' = FALSE
          ELSE /\ overall_score' = overall_score
               /\ recommendations' = ExceptHandler(recommendations)
               /\ caught' = TRUE
    /\ pc' = "returned"
    /\ UNCHANGED <<env, run, modules, performance_metrics, integration_tests,
                   first_result>>

\* lines 136-140: a phase raises, the except branch records it, the result
\* is returned
PhaseRaises ==
    /\ pc = raiseAt
    /\ recommendations' = ExceptHandler(recommendations)
    /\ caught' = TRUE
    /\ pc' = "returned"
    /\ UNCHANGED <<env, run, modules, performance_metrics, integration_tests,
                   overall_score, first_result>>

Next ==
    \/ RunAssessment
    \/ CheckFrameworkModules
    \/ CheckBusinessModules
    \/ CheckSupportModules
    \/ CheckCompilation
    \/ CheckTestCoverage
    \/ RunPerformanceTests
    \/ RunIntegrationTests
    \/ CalculateScoreAndRecommendations
    \/ PhaseRaises

\* one run_assessment per instance, as main() does
Spec == Init /\ [][Next]_vars

NextRerun == Next \/ RunAssessmentAgain

\* run_assessment called up to MaxRuns times on one instance
SpecRerun == Init /\ [][NextRerun]_vars



(* ------------------------------- properties ---------------------------- *)
\* the (group, name) pairs recorded in the result, and the status of one
Recorded == UNION {{<<i, k>> : k \in DOMAIN modules[i]} : i \in 1..3}

Status(p) == modules[p[1]][p[2]]

Scored == pc = "returned" /\ ~caught

\* C1: in every reachable state, whatever the build outcome, a module whose
\* compilable flag is true exists and has a pom.xml.
C1_CompilableImpliesExistsAndPom ==
    \A p \in Recorded :
        Status(p).compilable => Status(p).exists /\ Status(p).has_pom

\* C1 witness: the build succeeded; one module was marked compilable and a
\* module that exists without pom.xml was left unmarked.
C1_Witness ==
    /\ pc = "coverage" /\ build_outcome = "success"
    /\ \E p \in Recorded : Status(p).compilable
    /\ \E p \in Recorded :
          Status(p).exists /\ ~Status(p).has_pom /\ ~Status(p).compilable

\* C2: every recorded module (test-framework and admin-console included)
\* that fails one of the checks exists / has_pom / has_tests has a non-empty
\* issues list holding the issue of each check that failed.
C2_IssuesForFailingChecks ==
    \A p \in Recorded :
        LET st == Status(p)
            iss == Range(st.issues)
        IN /\ (~st.exists \/ ~st.has_pom \/ ~st.has_tests) => st.issues # <<>>
           /\ ~st.exists =>
                iss \cap {IssueDirMissing, IssueNoTestFramework,
                          IssueNoAdminConsole} # {}
           /\ (st.exists /\ ~st.has_pom) => IssueNoPom \in iss
           /\ (st.exists /\ ~st.has_tests) => IssueNoTests \in iss

\* C3: a recorded module with exists = false has exactly one issue, has_pom,
\* compilable and has_tests false and test_coverage 0, at every point of the
\* run (after the build with any outcome and after the coverage estimator).
C3_MissingModuleUntouched ==
    \A p \in Recorded :
        ~Status(p).exists =>
            /\ Len(Status(p).issues) = 1
            /\ ~Status(p).has_pom
            /\ ~Status(p).compilable
            /\ ~Status(p).has_tests
            /\ Status(p).test_coverage = 0

\* C3 witness: the build failed and the coverage estimator ran, next to a
\* module that has the build issue there is a missing module.
C3_Witness ==
    /\ pc = "performance" /\ build_outcome = "failure"
    /\ \E p \in Recorded : ~Status(p).exists
    /\ \E p \in Recorded : IssueBuildFailed \in Range(Status(p).issues)


\* the category scores of the result as it stands
Scores ==
    CategoryScores(framework_modules, business_modules, support_modules,
                   performance_metrics, integration_tests)

WorkingCount ==
    Cardinality({p \in Recorded : Status(p).exists /\ Status(p).has_pom})

ExpectedCount ==
    Len(expected_framework_modules) + Len(expected_business_modules)
    + Len(expected_support_modules)

\* C4: when the aggregator has run, the modules recorded per group are
\* exactly the expected modules of the group, and the module completeness
\* score is 100 * k / n with k the modules that exist with a pom.xml and n
\* the combined size of the three expected-module lists.
C4_ModuleScoreOverExpected ==
    Scored =>
        /\ DOMAIN framework_modules = Range(expected_framework_modules)
        /\ DOMAIN business_modules = Range(expected_business_modules)
        /\ DOMAIN support_modules = Range(expected_support_modules)
        /\ Scores[1] = Rat(100 * WorkingCount, ExpectedCount)

\* C5: a build that ends in a timeout or an unexpected error leaves every
\* module as it was and hands over to the coverage stage; a failed build
\* appends the build issue to every module that exists with a pom.xml.
C5_TimeoutLeavesModulesAlone ==
    [][pc = "build" =>
        /\ pc' = "coverage" /\ caught' = caught
        /\ recommendations' = recommendations
        /\ build_outcome \in {"timeout", "error"} => modules' = modules
        /\ build_outcome = "failure" =>
             \A p \in Recorded :
                Status(p).exists /\ Status(p).has_pom =>
                    modules'[p[1]][p[2]].issues
                        = Append(Status(p).issues, IssueBuildFailed)]_vars

\* C5 witness: after a timed-out build the run went on through coverage,
\* benchmarks, scenarios and scoring, and a module that exists with a
\* pom.xml carries no build issue and is not compilable.
C5_Witness ==
    /\ Scored /\ run = 1 /\ build_outcome = "timeout"
    /\ Len(performance_metrics) > 0 /\ DOMAIN integration_tests # {}
    /\ \E p \in Recorded :
          /\ Status(p).exists /\ Status(p).has_pom /\ ~Status(p).compilable
          /\ Status(p).test_coverage = CoverageWhenTested
          /\ IssueBuildFailed \notin Range(Status(p).issues)

\* C6: a phase that raises ends the run at once with the result returned:
\* everything accumulated so far is left as it was and exactly one string
\* describing the error is appended to the recommendations.
C6_ErrorCaughtOnce ==
    [][/\ (pc = raiseAt => pc' = "returned" /\ caught')
       /\ (pc # "returned" /\ pc' = "returned" /\ caught' =>
            /\ modules' = modules
            /\ performance_metrics' = performance_metrics
            /\ integration_tests' = integration_tests
            /\ overall_score' = overall_score
            /\ recommendations' = Append(recommendations, RecError))]_vars

\* C6 witness: the coverage phase raised after the probe and the build had
\* filled the module groups; the run returned with the error recorded last.
C6_Witness ==
    /\ pc = "returned" /\ caught /\ raiseAt = "coverage" /\ run = 1
    /\ \E p \in Recorded : Status(p).compilable
    /\ recommendations = <<RecError>>

\* C7: after the aggregator ran, overall_score is
\* 0.30 module + 0.20 build + 0.20 test + 0.15 benchmark + 0.15 scenario,
\* the weights sum to 1 and the score lies in [0, 100]; category scores of
\* 50 each give 50 and <<100, 0, 0, 0, 0>> gives 30.
C7_WeightedSum ==
    /\ Scored =>
        \E sc \in {Scores} :
            /\ overall_score =
                  RAdd(RMul(sc[1], Rat(30, 100)),
                       RAdd(RMul(sc[2], Rat(20, 100)),
                            RAdd(RMul(sc[3], Rat(20, 100)),
                                 RAdd(RMul(sc[4], Rat(15, 100)),
                                      RMul(sc[5], Rat(15, 100))))))
            /\ RLeq(Int2Rat(0), overall_score)
            /\ RLeq(overall_score, Int2Rat(100))
    /\ 30 + 20 + 20 + 15 + 15 = 100
    /\ OverallScore([i \in 1..5 |-> Int2Rat(50)]) = Int2Rat(50)
    /\ OverallScore([i \in 1..5 |-> Int2Rat(IF i = 1 THEN 100 ELSE 0)])
          = Int2Rat(30)

\* C7 witness: the aggregator ran on a result whose module, build and test
\* scores are all positive.
C7_Witness ==
    /\ Scored
    /\ \E sc \in {Scores} :
          sc[1].n > 0 /\ sc[2].n > 0 /\ sc[3].n > 0 /\ sc[3].d > 1
    /\ overall_score.n > 0


AllRecs == <<RecModule, RecBuild, RecCoverage, RecBenchmark, RecIntegration>>

Thresholds == <<80, 90, 70, 60, 50>>

\* C8: the recommendations left by the aggregator hold the i-th advice iff
\* the i-th category score is below its threshold (80, 90, 70, 60, 50), in
\* that order, without duplicates and without anything else.
C8_RecommendationsFromScores ==
    Scored =>
        /\ \E sc \in {Scores} :
              \A i \in 1..5 :
                 (AllRecs[i] \in Range(recommendations))
                     <=> (sc[i].n < Thresholds[i] * sc[i].d)
        /\ Range(recommendations) \subseteq Range(AllRecs)
        /\ \A i, j \in 1..Len(recommendations) :
              i < j =>
                \E a, b \in 1..5 :
                    /\ a < b
                    /\ recommendations[i] = AllRecs[a]
                    /\ recommendations[j] = AllRecs[b]

\* C8 witness: the aggregator ran on scores of which some are above and some
\* below their thresholds: no module and no build advice, the other three
\* present with test score exactly 60.
C8_Witness ==
    /\ Scored
    /\ Scores[3] = Int2Rat(60)
    /\ recommendations = <<RecCoverage, RecBenchmark, RecIntegration>>

\* C9: a second run_assessment on the same instance with the same external
\* inputs (no phase raising) returns a result equal to the first one's, the
\* benchmark list holding each reference benchmark exactly once.
C9_RerunIsFresh ==
    (pc = "returned" /\ run = 2 /\ raiseAt = "none") =>
        /\ Result = first_result
        /\ \A n \in Range(BenchmarkNames) :
              Cardinality({i \in DOMAIN performance_metrics :
                             performance_metrics[i].test_name = n}) = 1

\* C10: on every result the instance can hold, each category score is a
\* defined number, and it is 0 when its denominator count is 0; the
\* aggregator never leaves through a division by zero.
C10_ScoresDefined ==
    /\ \E sc \in {Scores} :
        /\ \A i \in 1..5 : Defined(sc[i]) /\ sc[i].n >= 0
        /\ Recorded = {} => sc[1] = Int2Rat(0)
        /\ WorkingCount = 0 => sc[2] = Int2Rat(0)
        /\ (\A p \in Recorded : ~Status(p).exists) => sc[3] = Int2Rat(0)
        /\ performance_metrics = <<>> => sc[4] = Int2Rat(0)
        /\ DOMAIN integration_tests = {} => sc[5] = Int2Rat(0)
    /\ (pc = "returned" /\ raiseAt = "none") => ~caught

\* C10 witness: the aggregator ran although no recorded module exists.
C10_Witness ==
    /\ Scored /\ run = 1
    /\ Recorded # {}
    /\ \A p \in Recorded : ~Status(p).exists
    /\ overall_score = Int2Rat(0)

\* C11: in a run in which no phase raises, whatever the filesystem and the
\* build outcome, the test score is at most 60, the benchmark and scenario
\* scores are 0, the recommendations end with the coverage, benchmark and
\* scenario advice in that order, and overall_score is at most 62.
C11_ScoreCeiling ==
    (pc = "returned" /\ raiseAt = "none") =>
        /\ ~caught
        /\ \E sc \in {Scores} :
              /\ RLeq(sc[3], Int2Rat(60))
              /\ sc[4] = Int2Rat(0)
              /\ sc[5] = Int2Rat(0)
        /\ Len(recommendations) >= 3
        /\ SubSeq(recommendations, Len(recommendations) - 2,
                  Len(recommendations))
              = <<RecCoverage, RecBenchmark, RecIntegration>>
        /\ RLeq(overall_score, Int2Rat(62))

\* C11 witness: the best case the tree and the build allow: every probed
\* module exists with pom.xml and tests, the build succeeded, the test score
\* is 60, only the three advice strings remain and the score is above 59.
C11_Witness ==
    /\ Scored /\ raiseAt = "none" /\ build_outcome = "success"
    /\ \E sc \in {Scores} : sc[2] = Int2Rat(100) /\ sc[3] = Int2Rat(60)
    /\ recommendations = <<RecCoverage, RecBenchmark, RecIntegration>>
    /\ RLess(Int2Rat(59), overall_score)

====
